---- MODULE Spec2Model ----
(***************************************************************************)
(* Model of dags/mlflow_multimodel_register_example.py: the Airflow DAG    *)
(* that trains one model per family with grid search, picks the best run   *)
(* by AUC then accuracy (get_best_model), retrains it on the full table    *)
(* (build_best_model) and registers it in the MLflow registry              *)
(* (register_model).                                                       *)
(*                                                                         *)
(* Python strings that the code inspects character by character (parameter *)
(* names and values) are sequences of one-character strings.  Names that   *)
(* are only compared (task ids, run ids, metric names) are TLA+ strings.   *)
(***************************************************************************)
EXTENDS Integers, Sequences, FiniteSets, TLC

(***************************************************************************)
(* Bounds of the model.                                                    *)
(***************************************************************************)
\* longest list of training results handed to get_best_model directly
MaxRuns == 3
\* metric values are 0..MaxMetric, standing for MaxMetric+1 ordered floats in [0,1]
MaxMetric == 1
\* longest logged parameter value drawn over Alphabet
MaxValLen == 3
\* largest number of logged parameters of a drawn run
MaxKeys == 2

(***************************************************************************)
(* Strings.                                                                *)
(***************************************************************************)
Digits == {"0", "1", "2", "3", "4", "5", "6", "7", "8", "9"}

DigitVal(c) ==
    CASE c = "0" -> 0 [] c = "1" -> 1 [] c = "2" -> 2 [] c = "3" -> 3
      [] c = "4" -> 4 [] c = "5" -> 5 [] c = "6" -> 6 [] c = "7" -> 7
      [] c = "8" -> 8 [] c = "9" -> 9

\* a character str.isdigit() takes for a digit and int() does not: superscript two
Sup2 == "^2"

\* the characters the drawn parameter values are made of
Alphabet == {"0", "5", ".", "g", "-", Sup2}

RECURSIVE StringsUpTo(_)
StringsUpTo(n) ==
    IF n = 0 THEN {<< >>}
    ELSE LET shorter == StringsUpTo(n - 1)
         IN  shorter \cup {Append(s, c) : s \in shorter, c \in Alphabet}

\* 'best_'
BestPrefix == <<"b", "e", "s", "t", "_">>

\* k.startswith('best_')
StartsWith(s, p) == Len(s) >= Len(p) /\ SubSeq(s, 1, Len(p)) = p

\* k[len('best_'):]
StripPrefix(k) == SubSeq(k, Len(BestPrefix) + 1, Len(k))

\* '.' in v
Contains(s, c) == \E i \in 1..Len(s) : s[i] = c

\* v.isdigit(): non-empty and every character a digit, superscripts included
IsDigit(s) == Len(s) > 0 /\ \A i \in 1..Len(s) : s[i] \in Digits \cup {Sup2}

\* int(v) accepts, of the strings isdigit() passes, those of decimal digits
IntValid(s) == Len(s) > 0 /\ \A i \in 1..Len(s) : s[i] \in Digits

RECURSIVE DigitsToNat(_)
DigitsToNat(s) ==
    IF Len(s) = 0 THEN 0
    ELSE 10 * DigitsToNat(SubSeq(s, 1, Len(s) - 1)) + DigitVal(s[Len(s)])

RECURSIVE Pow10(_)
Pow10(n) == IF n = 0 THEN 1 ELSE 10 * Pow10(n - 1)

(***************************************************************************)
(* Typed hyperparameter values: Python float, int and str.                 *)
(***************************************************************************)
PyFloat(n, d) == [kind |-> "float", num |-> n, den |-> d, str |-> << >>]
PyInt(n) == [kind |-> "int", num |-> n, den |-> 1, str |-> << >>]
PyStr(s) == [kind |-> "str", num |-> 0, den |-> 1, str |-> s]

\* float(v) accepts, over Digits and '.', '-': an optional sign, then digits
\* with one decimal point and at least one digit
FloatBody(s) == IF Len(s) > 0 /\ s[1] = "-" THEN Tail(s) ELSE s

FloatValid(s) ==
    LET b == FloatBody(s)
        dots == {i \in 1..Len(b) : b[i] = "."}
    IN  /\ Cardinality(dots) = 1
        /\ Len(b) >= 2
        /\ \A i \in 1..Len(b) : b[i] = "." \/ b[i] \in Digits

\* float(v) of a valid literal, as the fraction num/den
FloatOf(s) ==
    LET b == FloatBody(s)
        dot == CHOOSE i \in 1..Len(b) : b[i] = "."
        int_part == SubSeq(b, 1, dot - 1)
        frac_part == SubSeq(b, dot + 1, Len(b))
        mag == DigitsToNat(int_part \o frac_part)
    IN  PyFloat(IF b = s THEN mag ELSE 0 - mag, Pow10(Len(frac_part)))

(***************************************************************************)
(* The tracking server's run store, as get_run reads it: run id ->         *)
(* [metrics, params].  A run id outside its domain does not resolve.       *)
(***************************************************************************)
NoParams == [k \in {} |-> << >>]
NoMetrics == [m \in {} |-> 0]
NoData == [metrics |-> NoMetrics, params |-> NoParams]

\* mlflow.get_run(run_id).data.to_dictionary(): raises for an id that names
\* no run (the empty id included)
GetRun(st, run_id) ==
    IF run_id \in DOMAIN st
    THEN [err |-> "", data |-> st[run_id]]
    ELSE [err |-> "MlflowException", data |-> NoData]

(***************************************************************************)
(* get_best_model: the selection loop.                                     *)
(***************************************************************************)
\* best = {'run_id': '', 'model': '', 'auc_score': 0, 'accuracy': 0}
InitBest == [run_id |-> "", model |-> "", auc_score |-> 0, accuracy |-> 0]

Replaced(entry, auc_score, accuracy) ==
    [run_id |-> entry.run_id, model |-> entry.model_type,
     auc_score |-> auc_score, accuracy |-> accuracy]

\* a comparison written with >= in the first branch
UpdateBestGe(b, entry, auc_score, accuracy) ==
    IF auc_score >= b.auc_score
    THEN Replaced(entry, auc_score, accuracy)
    ELSE IF auc_score = b.auc_score /\ accuracy > b.accuracy
    THEN Replaced(entry, auc_score, accuracy)
    ELSE b

\* the if / elif / else of the loop
UpdateBest(b, entry, auc_score, accuracy) ==
    IF auc_score > b.auc_score
    THEN Replaced(entry, auc_score, accuracy)
    ELSE IF auc_score = b.auc_score /\ accuracy > b.accuracy
    THEN Replaced(entry, auc_score, accuracy)
    ELSE b

\* a loop body that passes over a result it cannot read
LoopBodySkip(b, entry, st) ==
    LET run == GetRun(st, entry.run_id)
        metrics == run.data.metrics
    IN  IF run.err # "" \/ {"test_auc_score", "accuracy"} \ DOMAIN metrics # {}
        THEN [err |-> "", best |-> b]
        ELSE [err |-> "",
              best |-> UpdateBest(b, entry, metrics["test_auc_score"], metrics["accuracy"])]

\* one iteration: get_run, the two metric lookups, the comparison
LoopBody(b, entry, st) ==
    LET run == GetRun(st, entry.run_id)
        metrics == run.data.metrics
    IN  IF run.err # ""
        THEN [err |-> run.err, best |-> b]
        ELSE IF "test_auc_score" \notin DOMAIN metrics \/ "accuracy" \notin DOMAIN metrics
        THEN [err |-> "KeyError", best |-> b]
        ELSE [err |-> "",
              best |-> UpdateBest(b, entry, metrics["test_auc_score"], metrics["accuracy"])]

\* for run_id in run_ids, from position i on; an exception ends the loop
RECURSIVE Loop(_, _, _, _)
Loop(ids, i, b, st) ==
    IF i > Len(ids) THEN [err |-> "", best |-> b]
    ELSE LET step == LoopBody(b, ids[i], st)
         IN  IF step.err # "" THEN step ELSE Loop(ids, i + 1, step.best, st)

(***************************************************************************)
(* get_best_model: the winning run's parameters, typed.                    *)
(***************************************************************************)
\* a lookup that yields no parameters for a run id it cannot resolve
BestRunOrEmpty(st, b) ==
    IF b.run_id \in DOMAIN st
    THEN [err |-> "", params |-> st[b.run_id].params]
    ELSE [err |-> "", params |-> NoParams]

\* best_run = mlflow.get_run(best['run_id']).data.to_dictionary()['params']
BestRun(st, b) ==
    LET run == GetRun(st, b.run_id)
    IN  [err |-> run.err, params |-> run.data.params]

\* a coercion without the float branch
CoerceNoFloat(v) ==
    IF IsDigit(v)
    THEN IF IntValid(v)
         THEN [err |-> "", val |-> PyInt(DigitsToNat(v))]
         ELSE [err |-> "ValueError", val |-> PyStr(v)]
    ELSE [err |-> "", val |-> PyStr(v)]

\* the if '.' in v / elif v.isdigit() / else of the parameter loop
Coerce(v) ==
    IF Contains(v, ".")
    THEN IF FloatValid(v)
         THEN [err |-> "", val |-> FloatOf(v)]
         ELSE [err |-> "ValueError", val |-> PyStr(v)]
    ELSE IF IsDigit(v)
    THEN IF IntValid(v)
         THEN [err |-> "", val |-> PyInt(DigitsToNat(v))]
         ELSE [err |-> "ValueError", val |-> PyStr(v)]
    ELSE [err |-> "", val |-> PyStr(v)]

\* for k in best_run: if k.startswith('best_'): best_params[k[5:]] = ...
RecoverParams(best_run) ==
    LET keys == {k \in DOMAIN best_run : StartsWith(k, BestPrefix)}
    IN  IF \E k \in keys : Coerce(best_run[k]).err # ""
        THEN [err |-> "ValueError", params |-> NoParams]
        ELSE [err |-> "",
              params |-> [s \in {StripPrefix(k) : k \in keys} |->
                             Coerce(best_run[BestPrefix \o s]).val]]

NoReturn == [params |-> NoParams, model_type |-> ""]

\* the body of get_best_model after set_experiment: the loop, the lookup of
\* the best run, the typed parameters, the returned dict
get_best_model(ids, st) ==
    LET loop == Loop(ids, 1, InitBest, st)
        run == BestRun(st, loop.best)
        rec == RecoverParams(run.params)
    IN  IF loop.err # "" THEN [err |-> loop.err, best |-> loop.best, ret |-> NoReturn]
        ELSE IF run.err # "" THEN [err |-> run.err, best |-> loop.best, ret |-> NoReturn]
        ELSE IF rec.err # "" THEN [err |-> rec.err, best |-> loop.best, ret |-> NoReturn]
        ELSE [err |-> "", best |-> loop.best,
              ret |-> [params |-> rec.params, model_type |-> loop.best.model]]

(***************************************************************************)
(* build_best_model: base defaults and the merge.                          *)
(***************************************************************************)
PyList(l) == [kind |-> "list", num |-> 0, den |-> 1, str |-> l]

K_objective == <<"o", "b", "j", "e", "c", "t", "i", "v", "e">>
K_metric == <<"m", "e", "t", "r", "i", "c">>
K_boosting_type == <<"b", "o", "o", "s", "t", "i", "n", "g", "_", "t", "y", "p", "e">>
K_max_iter == <<"m", "a", "x", "_", "i", "t", "e", "r">>
K_C == <<"C">>
K_penalty == <<"p", "e", "n", "a", "l", "t", "y">>
K_learning_rate == <<"l", "e", "a", "r", "n", "i", "n", "g", "_", "r", "a", "t", "e">>
K_cv == <<"c", "v">>

V_binary == <<"b", "i", "n", "a", "r", "y">>
V_gbdt == <<"g", "b", "d", "t">>
V_dart == <<"d", "a", "r", "t">>
V_l2 == <<"l", "2">>

\* base_params of the two branches
base_params(model_type) ==
    IF model_type = "lgbm"
    THEN (K_objective :> PyStr(V_binary))
         @@ (K_metric :> PyList(<<"auc", "binary_logloss">>))
         @@ (K_boosting_type :> PyStr(V_gbdt))
    ELSE (K_max_iter :> PyInt(500))

\* a merge in which the base defaults win
MergeBaseWins(base, over) ==
    [k \in DOMAIN base \cup DOMAIN over |->
        IF k \in DOMAIN base THEN base[k] ELSE over[k]]

\* all_params = {**base_params, **model_params['params']}
Merge(base, over) ==
    [k \in DOMAIN base \cup DOMAIN over |->
        IF k \in DOMAIN over THEN over[k] ELSE base[k]]

(***************************************************************************)
(* The DAG.                                                                *)
(***************************************************************************)
\* the keys of include.grid_configs.models, in iteration order
Models == <<"lgbm", "logistic_regression">>

TrainTasks == {Models[i] : i \in 1..Len(Models)}
PrepTasks == {"load_data", "preprocessing", "feature_engineering"}
MlflowTasks == TrainTasks \cup {"get_best_model", "build_best_model", "register_model"}
Tasks == PrepTasks \cup MlflowTasks

ExperimentName == "census_prediction"

\* a dependency list that joins get_best_model to the first train task only
UpstreamFirstOnly(t) ==
    CASE t = "load_data" -> {}
      [] t = "preprocessing" -> {"load_data"}
      [] t = "feature_engineering" -> {"preprocessing"}
      [] t \in TrainTasks -> {"feature_engineering"}
      [] t = "get_best_model" -> {Models[1]}
      [] t = "build_best_model" -> {"get_best_model", "feature_engineering"}
      [] t = "register_model" -> {"build_best_model"}

\* the task dependencies the calls at the end of the DAG function create:
\* every task argument that is another task's output is an upstream task
Upstream(t) ==
    CASE t = "load_data" -> {}
      [] t = "preprocessing" -> {"load_data"}
      [] t = "feature_engineering" -> {"preprocessing"}
      [] t \in TrainTasks -> {"feature_engineering"}
      [] t = "get_best_model" -> TrainTasks
      [] t = "build_best_model" -> {"get_best_model", "feature_engineering"}
      [] t = "register_model" -> {"build_best_model"}

\* the parameters one train run logs: the grid's winning values under
\* best_<name>, next to the plain parameters autologging records
LoggedParams(model_type) ==
    IF model_type = "lgbm"
    THEN {((BestPrefix \o K_learning_rate) :> lr)
          @@ ((BestPrefix \o K_boosting_type) :> bt)
          @@ (K_cv :> <<"5">>) :
             lr \in {<<"0", ".", "5">>}, bt \in {V_gbdt, V_dart}}
    ELSE {((BestPrefix \o K_C) :> c)
          @@ ((BestPrefix \o K_penalty) :> V_l2)
          @@ (K_cv :> <<"5">>) :
             c \in {<<"0", ".", "5">>, <<"5">>}}

RunId(n) == "r" \o ToString(n)

NoTrainOut == [run_id |-> "", model_type |-> ""]
NoModel == [family |-> "", settings |-> NoParams, data |-> "none", fitted |-> FALSE]

VARIABLES
    experiments,          \* tracking server: names of the experiments that exist
    store,                \* tracking server: run id -> [metrics, params]
    nextRun,              \* tracking server: number of the next run it creates
    registry,             \* model registry: the versions of 'census_pred'
    state,                \* scheduler: state of each task instance
    pc,                   \* position of each running task in its function
    createOutcome,        \* what each task's create_experiment call did
    failure,              \* the exception that failed each task, "" if none
    train_out,            \* return value of each train task
    run_ids,              \* get_best_model's argument
    best,                 \* get_best_model's best dict
    best_model_params,    \* return value of get_best_model
    all_params,           \* build_best_model's all_params
    final_model,          \* the estimator build_best_model fits
    final_model_run_id    \* return value of build_best_model

vars == <<experiments, store, nextRun, registry, state, pc, createOutcome, failure,
          train_out, run_ids, best, best_model_params, all_params, final_model,
          final_model_run_id>>

tracker == <<experiments, store, nextRun, registry>>
data == <<train_out, run_ids, best, best_model_params, all_params, final_model,
          final_model_run_id>>

Init ==
    /\ experiments \in {{}, {ExperimentName}}
    /\ store = [r \in {} |-> NoData]
    /\ nextRun = 1
    /\ registry = << >>
    /\ state = [t \in Tasks |-> "none"]
    /\ pc = [t \in Tasks |-> "start"]
    /\ createOutcome = [t \in MlflowTasks |-> "none"]
    /\ failure = [t \in Tasks |-> ""]
    /\ train_out = [k \in TrainTasks |-> NoTrainOut]
    /\ run_ids = << >>
    /\ best = InitBest
    /\ best_model_params = NoReturn
    /\ all_params = NoParams
    /\ final_model = NoModel
    /\ final_model_run_id = ""

(***************************************************************************)
(* The scheduler: no task sets a trigger rule or retries, so each runs     *)
(* once, when all its upstream tasks have succeeded.                       *)
(***************************************************************************)
\* a rule that only waits for the upstream tasks to finish
TriggerRuleAllDone(t) ==
    \A u \in Upstream(t) : state[u] \in {"success", "failed", "upstream_failed"}

\* trigger rule all_success
TriggerRule(t) == \A u \in Upstream(t) : state[u] = "success"

Start(t) ==
    /\ state[t] = "none"
    /\ TriggerRule(t)
    /\ state' = [state EXCEPT ![t] = "running"]
    /\ pc' = [pc EXCEPT ![t] = IF t \in MlflowTasks THEN "create" ELSE "body"]
    /\ run_ids' = IF t = "get_best_model"
                  THEN [i \in 1..Len(Models) |-> train_out[Models[i]]]
                  ELSE run_ids
    /\ UNCHANGED <<tracker, createOutcome, failure, train_out, best, best_model_params,
                   all_params, final_model, final_model_run_id>>

UpstreamFailed(t) ==
    /\ state[t] = "none"
    /\ \E u \in Upstream(t) : state[u] \in {"failed", "upstream_failed"}
    /\ state' = [state EXCEPT ![t] = "upstream_failed"]
    /\ UNCHANGED <<tracker, pc, createOutcome, failure, data>>

Succeed(t) ==
    /\ state' = [state EXCEPT ![t] = "success"]
    /\ pc' = [pc EXCEPT ![t] = "done"]
    /\ UNCHANGED failure

Fail(t, exc) ==
    /\ state' = [state EXCEPT ![t] = "failed"]
    /\ pc' = [pc EXCEPT ![t] = "done"]
    /\ failure' = [failure EXCEPT ![t] = exc]

At(t, where) == state[t] = "running" /\ pc[t] = where

(***************************************************************************)
(* The opening of every MLflow task: create_experiment inside try/except,  *)
(* then set_experiment.                                                    *)
(***************************************************************************)
\* a handler that lets the already-exists failure through
CaughtNotExists(exc) == exc # "already_exists"

\* except: pass
Caught(exc) == TRUE

CreateExperiment(t) ==
    /\ At(t, "create")
    /\ \E outcome \in {"created", "already_exists", "other_error"} :
          /\ outcome = "created" => ExperimentName \notin experiments
          /\ outcome = "already_exists" => ExperimentName \in experiments
          /\ experiments' = IF outcome = "created"
                            THEN experiments \cup {ExperimentName}
                            ELSE experiments
          /\ createOutcome' = [createOutcome EXCEPT ![t] = outcome]
          /\ IF outcome = "created" \/ Caught(outcome)
             THEN /\ pc' = [pc EXCEPT ![t] = "set"]
                  /\ UNCHANGED <<state, failure>>
             ELSE Fail(t, outcome)
    /\ UNCHANGED <<store, nextRun, registry, data>>

\* mlflow.set_experiment: creates the experiment when it is missing; raises
\* when the server refuses
SetExperiment(t) ==
    /\ At(t, "set")
    /\ \/ /\ experiments' = experiments \cup {ExperimentName}
          /\ pc' = [pc EXCEPT ![t] = "body"]
          /\ UNCHANGED <<state, failure>>
       \/ /\ Fail(t, "set_experiment")
          /\ UNCHANGED experiments
    /\ UNCHANGED <<store, nextRun, registry, createOutcome, data>>

(***************************************************************************)
(* The task bodies.                                                        *)
(***************************************************************************)
\* load_data, preprocessing, feature_engineering: return the table or raise
PrepBody(t) ==
    /\ At(t, "body")
    /\ \/ Succeed(t)
       \/ Fail(t, "external")
    /\ UNCHANGED <<tracker, createOutcome, data>>

load_data == PrepBody("load_data")
preprocessing == PrepBody("preprocessing")
feature_engineering == PrepBody("feature_engineering")

\* train, after set_experiment: split, grid search, fit and evaluation inside
\* one run; the run's metrics are logged last
train(k) ==
    /\ At(k, "body")
    /\ \/ \* an exception before start_run
          /\ Fail(k, "external")
          /\ UNCHANGED <<store, nextRun, train_out>>
       \/ \* an exception inside the run, before anything is logged
          /\ store' = store @@ (RunId(nextRun) :> NoData)
          /\ nextRun' = nextRun + 1
          /\ Fail(k, "external")
          /\ UNCHANGED train_out
       \/ \E auc_score \in 0..MaxMetric, accuracy \in 0..MaxMetric,
             logged \in LoggedParams(k) :
             /\ store' = store @@ (RunId(nextRun) :>
                            [metrics |-> ("test_auc_score" :> auc_score)
                                         @@ ("accuracy" :> accuracy),
                             params |-> logged])
             /\ nextRun' = nextRun + 1
             /\ train_out' = [train_out EXCEPT
                                ![k] = [run_id |-> RunId(nextRun), model_type |-> k]]
             /\ Succeed(k)
    /\ UNCHANGED <<experiments, registry, createOutcome, run_ids, best,
                   best_model_params, all_params, final_model, final_model_run_id>>

\* get_best_model, after set_experiment
get_best_model_body ==
    /\ At("get_best_model", "body")
    /\ LET r == get_best_model(run_ids, store)
       IN  /\ best' = r.best
           /\ IF r.err = ""
              THEN /\ best_model_params' = r.ret
                   /\ Succeed("get_best_model")
              ELSE /\ Fail("get_best_model", r.err)
                   /\ UNCHANGED best_model_params
    /\ UNCHANGED <<tracker, createOutcome, train_out, run_ids, all_params, final_model,
                   final_model_run_id>>

\* build_best_model, after set_experiment: the whole table goes into the
\* training set; in the lgbm branch lgb.train fits on it with all_params; in
\* the other branch LogisticRegression is called with the one keyword params,
\* which its constructor does not have, and fit is never called
build_best_model ==
    /\ At("build_best_model", "body")
    /\ \/ \* an exception before start_run
          /\ Fail("build_best_model", "start_run")
          /\ UNCHANGED <<store, nextRun, all_params, final_model, final_model_run_id>>
       \/ /\ store' = store @@ (RunId(nextRun) :> NoData)
          /\ nextRun' = nextRun + 1
          /\ all_params' = Merge(base_params(best_model_params.model_type),
                                 best_model_params.params)
          /\ IF best_model_params.model_type = "lgbm"
             THEN \/ /\ final_model' = [family |-> "lgbm", settings |-> all_params',
                                        data |-> "full_table", fitted |-> TRUE]
                     /\ final_model_run_id' = RunId(nextRun)
                     /\ Succeed("build_best_model")
                  \/ \* lgb.train raises
                     /\ Fail("build_best_model", "lgb.train")
                     /\ UNCHANGED <<final_model, final_model_run_id>>
             ELSE /\ Fail("build_best_model", "TypeError")
                  /\ UNCHANGED <<final_model, final_model_run_id>>
    /\ UNCHANGED <<experiments, registry, createOutcome, train_out, run_ids, best,
                   best_model_params>>

\* register_model, after set_experiment: mlflow.register_model, then the
\* transition of the new version to Staging
register_model ==
    /\ At("register_model", "body")
    /\ LET mv == [name |-> "census_pred", version |-> Len(registry) + 1,
                  source |-> final_model_run_id]
       IN  \/ /\ Fail("register_model", "external")
              /\ UNCHANGED registry
           \/ /\ registry' = Append(registry, mv @@ [stage |-> "None"])
              /\ Fail("register_model", "external")
           \/ /\ registry' = Append(registry, mv @@ [stage |-> "Staging"])
              /\ Succeed("register_model")
    /\ UNCHANGED <<experiments, store, nextRun, createOutcome, data>>

Next ==
    \/ \E t \in Tasks : Start(t)
    \/ \E t \in Tasks : UpstreamFailed(t)
    \/ \E t \in MlflowTasks : CreateExperiment(t)
    \/ \E t \in MlflowTasks : SetExperiment(t)
    \/ load_data
    \/ preprocessing
    \/ feature_engineering
    \/ \E k \in TrainTasks : train(k)
    \/ get_best_model_body
    \/ build_best_model
    \/ register_model

\* one DAG run
Spec == Init /\ [][Next]_vars

(***************************************************************************)
(* get_best_model on drawn inputs: the DAG run is at the start of          *)
(* get_best_model's body, and the list of training results and the run     *)
(* store are drawn from bounded sets.                                      *)
(***************************************************************************)
\* what get_run finds for one training result: no run, a run with a metric
\* missing, or a run with both metrics
Findings ==
    {[found |-> FALSE, metrics |-> NoMetrics]}
    \cup {[found |-> TRUE, metrics |-> ("accuracy" :> a)] : a \in {0}}
    \cup {[found |-> TRUE, metrics |-> ("test_auc_score" :> a)] : a \in {0}}
    \cup {[found |-> TRUE,
           metrics |-> ("test_auc_score" :> a) @@ ("accuracy" :> b)] :
             a \in 0..MaxMetric, b \in 0..MaxMetric}

FamilyAt(i) == Models[((i - 1) % Len(Models)) + 1]

DefaultParams(model_type) == CHOOSE p \in LoggedParams(model_type) : TRUE

\* a list of n results with distinct run ids, and the store in which result i
\* has the finding f[i]
ListInput(n, f) ==
    [ids |-> [i \in 1..n |-> [run_id |-> RunId(i), model_type |-> FamilyAt(i)]],
     st |-> [r \in {RunId(i) : i \in {j \in 1..n : f[j].found}} |->
               LET i == CHOOSE j \in 1..n : RunId(j) = r
               IN  [metrics |-> f[i].metrics, params |-> DefaultParams(FamilyAt(i))]]]

\* parameter names: with the prefix, without it, with it elsewhere, the prefix alone
KeySet ==
    {BestPrefix \o K_C, BestPrefix \o K_max_iter, BestPrefix \o K_boosting_type,
     K_C, <<"b", "e", "s", "t">> \o K_C, <<"x">> \o BestPrefix \o K_C, BestPrefix}

SampleValues == {<<"0", ".", "5">>, <<"3">>, V_gbdt, <<"5", ".">>, <<"-", "5">>, <<".">>}

\* parameter mappings of up to MaxKeys names with sample values
SampleParams ==
    UNION {[D -> SampleValues] :
             D \in {E \in SUBSET KeySet : Cardinality(E) <= MaxKeys}}

\* parameter mappings: one name with any value over Alphabet, or a sample mapping
ParamInputs ==
    {(k :> v) : k \in KeySet, v \in StringsUpTo(MaxValLen)} \cup SampleParams

\* one result of either family, its run carrying both metrics and the
\* parameter mapping p
SingleInput(m, p) ==
    [ids |-> <<[run_id |-> RunId(1), model_type |-> m]>>,
     st |-> (RunId(1) :> [metrics |-> ("test_auc_score" :> 1) @@ ("accuracy" :> 1),
                          params |-> p])]

\* the state of the tasks when task t is at the start of its body
StateAt(t) ==
    [u \in Tasks |->
        IF u = t THEN "running"
        ELSE IF u = "register_model" \/ (u = "build_best_model" /\ t = "get_best_model")
        THEN "none" ELSE "success"]

PcAt(t) ==
    [u \in Tasks |->
        IF u = t THEN "body" ELSE IF StateAt(t)[u] = "success" THEN "done" ELSE "start"]

CreateOutcomeAt(t) ==
    [u \in MlflowTasks |-> IF StateAt(t)[u] = "none" THEN "none" ELSE "already_exists"]

InitSelect ==
    /\ \/ \E n \in 0..MaxRuns : \E f \in [1..n -> Findings] :
             /\ run_ids = ListInput(n, f).ids
             /\ store = ListInput(n, f).st
       \/ \E m \in TrainTasks, p \in ParamInputs :
             /\ run_ids = SingleInput(m, p).ids
             /\ store = SingleInput(m, p).st
    /\ nextRun = Len(run_ids) + 1
    /\ experiments = {ExperimentName}
    /\ registry = << >>
    /\ state = StateAt("get_best_model")
    /\ pc = PcAt("get_best_model")
    /\ createOutcome = CreateOutcomeAt("get_best_model")
    /\ failure = [t \in Tasks |-> ""]
    /\ train_out = [k \in TrainTasks |-> NoTrainOut]
    /\ best = InitBest
    /\ best_model_params = NoReturn
    /\ all_params = NoParams
    /\ final_model = NoModel
    /\ final_model_run_id = ""

NextSelect == get_best_model_body

SpecSelect == InitSelect /\ [][NextSelect]_vars

(***************************************************************************)
(* build_best_model on drawn inputs: get_best_model has returned the typed *)
(* parameters of a run with a drawn parameter mapping, and the DAG run is  *)
(* at the start of build_best_model's body.                                *)
(***************************************************************************)
InitBuild ==
    /\ \E m \in TrainTasks, p \in SampleParams :
          LET in == SingleInput(m, p)
              r == get_best_model(in.ids, in.st)
          IN  /\ r.err = ""
              /\ run_ids = in.ids
              /\ store = in.st
              /\ nextRun = 2
              /\ best = r.best
              /\ best_model_params = r.ret
    /\ experiments = {ExperimentName}
    /\ registry = << >>
    /\ state = StateAt("build_best_model")
    /\ pc = PcAt("build_best_model")
    /\ createOutcome = CreateOutcomeAt("build_best_model")
    /\ failure = [t \in Tasks |-> ""]
    /\ train_out = [k \in TrainTasks |-> NoTrainOut]
    /\ all_params = NoParams
    /\ final_model = NoModel
    /\ final_model_run_id = ""

NextBuild == build_best_model

SpecBuild == InitBuild /\ [][NextBuild]_vars

(***************************************************************************)
(* Properties of get_best_model's selection.                               *)
(***************************************************************************)
\* get_best_model's body has run
SelectDone == pc["get_best_model"] = "done" /\ failure["get_best_model"] # "set_experiment"

Resolves(e) == e.run_id \in DOMAIN store
HasAuc(e) == Resolves(e) /\ "test_auc_score" \in DOMAIN store[e.run_id].metrics
HasAccuracy(e) == Resolves(e) /\ "accuracy" \in DOMAIN store[e.run_id].metrics
AllCarry == \A i \in 1..Len(run_ids) : HasAuc(run_ids[i]) /\ HasAccuracy(run_ids[i])

AucOf(e) == store[e.run_id].metrics["test_auc_score"]
AccuracyOf(e) == store[e.run_id].metrics["accuracy"]

\* result i is at least as good as result j: higher AUC, or equal AUC and
\* accuracy at least as high
AtLeast(i, j) ==
    \/ AucOf(run_ids[i]) > AucOf(run_ids[j])
    \/ /\ AucOf(run_ids[i]) = AucOf(run_ids[j])
       /\ AccuracyOf(run_ids[i]) >= AccuracyOf(run_ids[j])

Maximal(i) == \A j \in 1..Len(run_ids) : AtLeast(i, j)

Selected(i) == best.run_id = run_ids[i].run_id /\ best.model = run_ids[i].model_type

\* the selection of every reordering of the input list
Reorderings ==
    {[i \in 1..Len(run_ids) |-> run_ids[q[i]]] : q \in Permutations(1..Len(run_ids))}

SelectionOf(ids) == Loop(ids, 1, InitBest, store).best

\* C1 as stated: on a non-empty list whose runs carry both metrics the
\* selected result has maximal AUC and, among those, maximal accuracy, and
\* every permutation of the list selects the same run id and family.
C1_Original ==
    (SelectDone /\ Len(run_ids) > 0 /\ AllCarry) =>
        /\ \E i \in 1..Len(run_ids) : Selected(i) /\ Maximal(i)
        /\ \A ids \in Reorderings :
              /\ SelectionOf(ids).run_id = best.run_id
              /\ SelectionOf(ids).model = best.model

\* C1 amended: on a non-empty list whose runs carry both metrics, when some
\* result has a positive AUC or accuracy the selected result is the first in
\* list order that is maximal (AUC, then accuracy); every permutation selects
\* the same AUC and accuracy, and the same run id and family when one result
\* alone is maximal.  When every result has AUC 0 and accuracy 0 nothing is
\* selected and the task fails at the lookup of the empty run id.
C1_Selection ==
    (SelectDone /\ Len(run_ids) > 0 /\ AllCarry) =>
        IF \E i \in 1..Len(run_ids) : AucOf(run_ids[i]) > 0 \/ AccuracyOf(run_ids[i]) > 0
        THEN /\ \E i \in 1..Len(run_ids) :
                   /\ Selected(i)
                   /\ Maximal(i)
                   /\ \A j \in 1..(i - 1) : ~Maximal(j)
                   /\ best.auc_score = AucOf(run_ids[i])
                   /\ best.accuracy = AccuracyOf(run_ids[i])
             /\ \A ids \in Reorderings :
                   /\ SelectionOf(ids).auc_score = best.auc_score
                   /\ SelectionOf(ids).accuracy = best.accuracy
                   /\ Cardinality({i \in 1..Len(run_ids) : Maximal(i)}) = 1 =>
                         /\ SelectionOf(ids).run_id = best.run_id
                         /\ SelectionOf(ids).model = best.model
        ELSE /\ best = InitBest
             /\ state["get_best_model"] = "failed"
             /\ failure["get_best_model"] = "MlflowException"

\* a later result won over an earlier one of the same AUC by its accuracy
C1_Witness ==
    /\ SelectDone /\ Len(run_ids) >= 2 /\ AllCarry
    /\ AucOf(run_ids[1]) = AucOf(run_ids[2])
    /\ AccuracyOf(run_ids[1]) < AccuracyOf(run_ids[2])
    /\ Selected(2)
    /\ state["get_best_model"] = "success"

\* C2: called with an empty list, get_best_model ends in an error and returns
\* nothing; the zero-valued initial record never becomes its result.
C2_EmptyFails ==
    (SelectDone /\ Len(run_ids) = 0) =>
        /\ state["get_best_model"] = "failed"
        /\ failure["get_best_model"] # ""
        /\ best_model_params = NoReturn
        /\ state["build_best_model"] = "none"

C2_Witness ==
    /\ SelectDone /\ Len(run_ids) = 0
    /\ best = InitBest
    /\ failure["get_best_model"] = "MlflowException"

\* C10: when some result's run id does not resolve, or its run lacks the AUC
\* metric, get_best_model fails and returns nothing: the result is not
\* skipped in favour of the others.
C10_UnreadableFails ==
    (SelectDone /\ \E i \in 1..Len(run_ids) : ~HasAuc(run_ids[i])) =>
        /\ state["get_best_model"] = "failed"
        /\ failure["get_best_model"] \in {"MlflowException", "KeyError"}
        /\ best_model_params = NoReturn
        /\ state["build_best_model"] = "none"

\* a readable result with a positive AUC came before one that does not resolve
C10_Witness ==
    /\ SelectDone /\ Len(run_ids) >= 2
    /\ HasAuc(run_ids[1]) /\ HasAccuracy(run_ids[1]) /\ AucOf(run_ids[1]) > 0
    /\ ~Resolves(run_ids[2])
    /\ best.run_id = run_ids[1].run_id
    /\ state["get_best_model"] = "failed"

(***************************************************************************)
(* Properties of the typed parameters get_best_model returns.              *)
(***************************************************************************)
\* the logged parameters of the run the loop selected
WinnerParams == store[best.run_id].params
\* the loop went through the whole list and selected a run
WinnerKnown == SelectDone /\ AllCarry /\ best.run_id \in DOMAIN store

BestKeys ==
    {k \in DOMAIN WinnerParams :
        Len(k) >= 5 /\ \A i \in 1..5 : k[i] = <<"b", "e", "s", "t", "_">>[i]}

Stripped(k) == [i \in 1..(Len(k) - 5) |-> k[i + 5]]

\* the value the stated rule gives: a float for a decimal point, else an
\* integer for digits only, else the string itself
RuleHolds(v, typed) ==
    IF Contains(v, ".") THEN typed.kind = "float"
    ELSE IF IsDigit(v) THEN typed.kind = "int" /\ typed.num = DigitsToNat(v)
    ELSE typed = PyStr(v)

\* the four cases the rule is stated with
RuleExamples(recovered) ==
    \A k \in BestKeys :
        LET v == WinnerParams[k]
            typed == recovered[Stripped(k)]
        IN  /\ v = <<"0", ".", "5">> => typed.kind = "float" /\ typed.num * 10 = 5 * typed.den
            /\ v = <<"5", ".">> => typed.kind = "float" /\ typed.num = 5 * typed.den
            /\ v = <<"-", ".", "5">> => typed.kind = "float" /\ typed.num * 10 = (0 - 5) * typed.den
            /\ v = <<"3">> => typed = PyInt(3)
            /\ v = V_gbdt => typed = PyStr(V_gbdt)
            /\ v = <<"-", "5">> => typed = PyStr(v)

Recovered(recovered) ==
    /\ DOMAIN recovered = {Stripped(k) : k \in BestKeys}
    /\ Cardinality(DOMAIN recovered) = Cardinality(BestKeys)
    /\ \A k \in BestKeys : RuleHolds(WinnerParams[k], recovered[Stripped(k)])
    /\ RuleExamples(recovered)

\* C3 as stated: for every parameter mapping of the winning run there is one
\* recovered entry per best_ key, under the name without the prefix, typed
\* by the rule, and none for any other key.
C3_Original ==
    WinnerKnown =>
        /\ state["get_best_model"] = "success"
        /\ Recovered(best_model_params.params)

\* a value float() or int() refuses although the rule sends it there
Unparsable(v) ==
    \/ Contains(v, ".") /\ ~FloatValid(v)
    \/ ~Contains(v, ".") /\ IsDigit(v) /\ \E i \in 1..Len(v) : v[i] \notin Digits

\* C3 amended: as stated whenever every best_ value the rule sends to float()
\* or int() is a literal that function accepts; otherwise get_best_model
\* fails with ValueError and returns no parameters.
C3_Recovery ==
    WinnerKnown =>
        IF \E k \in BestKeys : Unparsable(WinnerParams[k])
        THEN /\ state["get_best_model"] = "failed"
             /\ failure["get_best_model"] = "ValueError"
             /\ best_model_params = NoReturn
        ELSE /\ state["get_best_model"] = "success"
             /\ Recovered(best_model_params.params)
             /\ best_model_params.model_type = best.model

\* '0.5' under best_C came back as the float 0.5 under C, next to a
\* parameter without the prefix that was left out
C3_Witness ==
    /\ WinnerKnown
    /\ state["get_best_model"] = "success"
    /\ DOMAIN WinnerParams = {BestPrefix \o K_C, <<"x">> \o BestPrefix \o K_C}
    /\ WinnerParams[BestPrefix \o K_C] = <<"0", ".", "5">>
    /\ DOMAIN best_model_params.params = {K_C}
    /\ best_model_params.params[K_C] = PyFloat(5, 10)

(***************************************************************************)
(* Properties of build_best_model.                                         *)
(***************************************************************************)
\* build_best_model's body has run
BuildDone == pc["build_best_model"] = "done" /\ failure["build_best_model"] # "set_experiment"

\* build_best_model got as far as its branch on the model type
BuildMerged == BuildDone /\ failure["build_best_model"] # "start_run"

\* C5 as stated: whichever family won, build_best_model fits an estimator of
\* that family on the whole table with the recovered hyperparameters as its
\* settings, inside its run, and returns that run's id.
C5_Claim ==
    (BuildDone /\ failure["build_best_model"] \notin {"start_run", "lgb.train"}) =>
        /\ state["build_best_model"] = "success"
        /\ final_model.fitted
        /\ final_model.family = best_model_params.model_type
        /\ final_model.data = "full_table"
        /\ \A k \in DOMAIN best_model_params.params :
              /\ k \in DOMAIN final_model.settings
              /\ final_model.settings[k] = best_model_params.params[k]
        /\ final_model_run_id \in DOMAIN store

\* C6: the mapping build_best_model trains with is the family's base defaults
\* with the recovered hyperparameters laid over them: base keys the recovered
\* mapping lacks keep the base value, recovered keys take the recovered
\* value, and there is no other key.
C6_Merge ==
    BuildMerged =>
        LET base == base_params(best_model_params.model_type)
            over == best_model_params.params
        IN  /\ DOMAIN all_params = DOMAIN base \cup DOMAIN over
            /\ \A k \in DOMAIN over : all_params[k] = over[k]
            /\ \A k \in DOMAIN base \ DOMAIN over : all_params[k] = base[k]
            /\ best_model_params.model_type = "lgbm" =>
                  /\ K_objective \in DOMAIN all_params
                  /\ K_boosting_type \in DOMAIN all_params
                  /\ K_metric \in DOMAIN all_params
            /\ best_model_params.model_type # "lgbm" => K_max_iter \in DOMAIN all_params
            /\ final_model.fitted => final_model.settings = all_params

\* a recovered boosting_type replaced the base one and objective was kept
C6_Witness ==
    /\ BuildMerged
    /\ best_model_params.model_type = "lgbm"
    /\ K_boosting_type \in DOMAIN best_model_params.params
    /\ best_model_params.params[K_boosting_type] # PyStr(V_gbdt)
    /\ all_params[K_boosting_type] = best_model_params.params[K_boosting_type]
    /\ K_objective \notin DOMAIN best_model_params.params
    /\ all_params[K_objective] = PyStr(V_binary)
    /\ final_model.fitted

(***************************************************************************)
(* Properties of the DAG run.                                              *)
(***************************************************************************)
Started(t) == state[t] \in {"running", "success", "failed"}
Broken(t) == state[t] \in {"failed", "upstream_failed"}

\* C4: get_best_model starts only when every train task has succeeded, and
\* its argument is then the list of all their results, one per family; when
\* a train task has failed get_best_model does not run.
C4_FanIn ==
    /\ Started("get_best_model") =>
          /\ \A k \in TrainTasks : state[k] = "success"
          /\ Len(run_ids) = Len(Models)
          /\ \A i \in 1..Len(Models) :
                /\ run_ids[i].model_type = Models[i]
                /\ run_ids[i] = train_out[Models[i]]
                /\ run_ids[i].run_id \in DOMAIN store
    /\ (\E k \in TrainTasks : Broken(k)) =>
          /\ ~Started("get_best_model")
          /\ ~Started("build_best_model")
          /\ best = InitBest

\* get_best_model is running on the results of both families
C4_Witness ==
    /\ At("get_best_model", "body")
    /\ Len(run_ids) = 2
    /\ run_ids[1].run_id # run_ids[2].run_id
    /\ \A k \in TrainTasks : state[k] = "success"

\* a model version exists, or a stage has started, only with everything
\* before it succeeded
C7_Order ==
    /\ (Started("register_model") \/ Len(registry) > 0) =>
          \A t \in TrainTasks \cup {"get_best_model", "build_best_model"} :
              state[t] = "success"
    /\ Started("build_best_model") =>
          \A t \in TrainTasks \cup {"get_best_model"} : state[t] = "success"
    /\ Started("get_best_model") => \A t \in TrainTasks : state[t] = "success"
    /\ (\E t \in Tasks \ {"register_model"} : Broken(t)) =>
          ~Started("register_model") /\ Len(registry) = 0

\* a finished task instance is not run again
C7_NoRetry ==
    \A t \in Tasks :
        state[t] \in {"success", "failed", "upstream_failed"} => state'[t] = state[t]

\* C7: a model version is registered only after every train task,
\* get_best_model and build_best_model have succeeded, in that order; a
\* failed stage is not retried and register_model then never runs.
C7_RegisterLast == [](C7_Order) /\ [][C7_NoRetry]_vars

\* the run went through and one version of the model is in Staging
C7_Witness ==
    /\ state["register_model"] = "success"
    /\ Len(registry) = 1
    /\ registry[1].stage = "Staging"
    /\ registry[1].source = final_model_run_id

\* C8 as stated: an exception a task raises fails it, and of the exceptions
\* create_experiment raises only the already-exists one is discarded.
C8_Claim ==
    \A t \in MlflowTasks :
        /\ createOutcome[t] = "other_error" =>
              state[t] = "failed" /\ failure[t] = "other_error"
        /\ failure[t] # "" => state[t] = "failed"

\* C9: however the tasks' create_experiment calls interleave, a call that
\* finds the experiment already there does not fail its task: the task goes
\* on to set_experiment and its body.
C9_Idempotent ==
    \A t \in MlflowTasks :
        createOutcome[t] = "already_exists" =>
            /\ failure[t] # "already_exists"
            /\ pc[t] \in {"set", "body", "done"}
            /\ ExperimentName \in experiments
            /\ state[t] = "failed" => failure[t] # "" /\ failure[t] # "other_error"

\* the second family's train task created the experiment, the first found
\* it there, and both went on to finish
C9_Witness ==
    /\ createOutcome[Models[2]] = "created"
    /\ createOutcome[Models[1]] = "already_exists"
    /\ createOutcome["get_best_model"] = "already_exists"
    /\ \A k \in TrainTasks : state[k] = "success"

====
